---- MODULE Spec2Model ----
(***************************************************************************)
(* Content backend (blog / news / events): slug generation, create,        *)
(* update, delete and read-by-slug handlers over the relational store,      *)
(* with requests interleaving at their commit points; file storage (upload  *)
(* and delete routes, the storage adapter) and comments.                    *)
(***************************************************************************)
EXTENDS Integers, Sequences, FiniteSets, TLC

(***************************************************************************)
(* Bounds of the model.                                                     *)
(***************************************************************************)
\* how many requests are ever started
MaxRequests == 3
\* largest -k suffix among the pre-populated slugs of the slug-generation runs
MaxSuffix == 3

\* an absent (null) value, and a present one
None == << >>
Some(v) == << v >>
Val(o) == o[1]

\* Python truth value of an Optional[int]: null and 0 are false
TruthyInt(o) == o # None /\ Val(o) # 0
\* Python truth value of an Optional[str]: null and "" are false
TruthyStr(o) == o # None /\ Val(o) # << >>

Kinds == {"blog", "news", "event"}
Slots == {"r1", "r2"}

(***************************************************************************)
(* Titles and slugs are sequences of one-character strings.                 *)
(***************************************************************************)
Lower(c) ==
  CASE c = "A" -> "a"
    [] c = "H" -> "h"
    [] OTHER -> c

IsAlnum(c) == c \in {"A", "H", "a", "b", "c", "d", "e", "l", "o",
                     "0", "1", "2", "3", "4", "5", "6", "7", "8", "9"}

\* slugify, first pass: lowercase the alphanumerics, every other character
\* becomes the separator
RECURSIVE SlugChars(_)
SlugChars(t) ==
  IF t = << >> THEN << >>
  ELSE << (IF IsAlnum(Head(t)) THEN Lower(Head(t)) ELSE "-") >> \o SlugChars(Tail(t))

HasWord(s) == \E i \in 1..Len(s) : s[i] # "-"

\* slugify, second pass: runs of separators collapse to one and none is kept
\* at either end
RECURSIVE Squeeze(_, _)
Squeeze(s, prevSep) ==
  IF s = << >> THEN << >>
  ELSE IF Head(s) = "-"
       THEN IF prevSep \/ ~HasWord(Tail(s))
            THEN Squeeze(Tail(s), prevSep)
            ELSE << "-" >> \o Squeeze(Tail(s), TRUE)
       ELSE << Head(s) >> \o Squeeze(Tail(s), FALSE)

slugify(title) == Squeeze(SlugChars(title), TRUE)

\* decimal rendering of a counter, as f"{counter}" gives it
RECURSIVE Digits(_)
Digits(n) ==
  IF n < 10 THEN << ToString(n) >>
  ELSE Digits(n \div 10) \o << ToString(n % 10) >>

Suffixed(base, k) == base \o << "-" >> \o Digits(k)

\* first suffix the loop of generate_slug tries
CounterStart == 1

\* the while loop of generate_slug: taken is the set of slugs the query sees
\* (the slugs of the entity's rows, the row being updated left out)
RECURSIVE SlugLoop(_, _, _, _)
SlugLoop(base, slug, counter, taken) ==
  IF slug \in taken
  THEN SlugLoop(base, Suffixed(base, counter), counter + 1, taken)
  ELSE slug

SlugFrom2(title, taken) ==
  LET base == slugify(title) IN SlugLoop(base, base, CounterStart + 1, taken)

generate_slug(title, taken) ==
  LET base == slugify(title) IN SlugLoop(base, base, CounterStart, taken)

(***************************************************************************)
(* Titles the requests use (the schemas ask for at least five characters).  *)
(***************************************************************************)
TitleAbCd == << "A", "b", " ", "c", "d" >>
TitleAbCd2 == << "a", "b", "!", "!", "c", "d" >>
TitleAbCd1 == << "A", "b", " ", "c", "d", " ", "1" >>
TitleHello == << "H", "e", "l", "l", "o" >>

SlugAbCd == << "a", "b", "-", "c", "d" >>
SlugHello == << "h", "e", "l", "l", "o" >>

(***************************************************************************)
(* Reference tables the content handlers only read: blog_categories,        *)
(* categories, users, stored_files and tags hold these ids.  Serial ids     *)
(* start at 1, so 0 and 2 name no row.                                      *)
(***************************************************************************)
BlogCategoryIds == {1}
CategoryIds == {1}
UserIds == {1}
StoredFileIds == {1}
TagIds == {1, 2}

VARIABLES
  rows,         \* rows[k]: the table of entity k, id -> columns
  nextId,       \* nextId[k]: the serial sequence of table k
  tag_links,    \* tag_links[k]: blog_tags / news_tags / event_tags, <<id, tag_id>>
  related,      \* related[k]: related_blogs / related_news / related_events, <<id, related_id>>
  news_events,  \* the news_events table, <<news_id, event_id>>
  req,          \* req[r]: the request handler running in slot r
  started,      \* number of requests started so far
  slugCall,     \* a single call of generate_slug: its arguments and result
  files,        \* the stored_files table, id -> bucket_name, file_path
  nextFileId,   \* the serial sequence of stored_files
  objects,      \* the objects the backends hold, <<backend, key>>
  nextKey,      \* the next fresh uuid4 file name
  storage,      \* what the process settled at import: the module globals of
                \* storage/router.py and the S3Storage singleton
  storeCall,    \* the last call of an S3Storage method and what it returned
  comments,     \* the comments table, id -> columns
  nextCommentId, \* the serial sequence of comments
  subscriptions, \* the newsletter_subscriptions table, id -> columns
  nextSubscriptionId \* the serial sequence of newsletter_subscriptions

vars ==
  << rows, nextId, tag_links, related, news_events, req, started, slugCall,
     files, nextFileId, objects, nextKey, storage, storeCall,
     comments, nextCommentId, subscriptions, nextSubscriptionId >>
dbVars == << rows, nextId, tag_links, related, news_events >>
storeVars == << files, nextFileId, objects, nextKey, storage, storeCall >>
commentVars == << comments, nextCommentId >>
newsletterVars == << subscriptions, nextSubscriptionId >>

(***************************************************************************)
(* Schema of each entity.                                                   *)
(***************************************************************************)
FKFields(k) ==
  IF k = "blog" THEN {"category_id", "author_id", "featured_image_id", "og_image_id"}
  ELSE {"category_id", "featured_image_id"}

\* the ids present in the table a foreign key refers to
Referenced(k, f) ==
  CASE f = "category_id" -> (IF k = "blog" THEN BlogCategoryIds ELSE CategoryIds)
    [] f = "author_id" -> UserIds
    [] OTHER -> DOMAIN files

\* the input field listing related items of the entity's own type, and the
\* one listing related items of the other type (news <-> events)
SelfField(k) ==
  CASE k = "blog" -> "related_blog_ids"
    [] k = "news" -> "related_news_ids"
    [] OTHER -> "related_event_ids"

CrossField(k) == IF k = "news" THEN "related_event_ids" ELSE "related_news_ids"
CrossKind(k) == IF k = "news" THEN "event" ELSE "news"
HasCross(k) == k # "blog"

AssocFields(k) ==
  {"tag_ids", SelfField(k)} \cup (IF HasCross(k) THEN {CrossField(k)} ELSE {})

\* default of an association list left out of an update: BlogUpdate and
\* NewsUpdate declare None, EventUpdate declares an empty list
UpdateListDefault(k) == IF k = "event" THEN Some({}) ELSE None

\* calculate_reading_time, the content standing for its word count:
\* max(1, round(words / 225)); 2 * words is never an odd multiple of 225,
\* so round never meets a tie
calculate_reading_time(words) ==
  IF words = 0 THEN 1
  ELSE LET minutes == (2 * words + 225) \div 450
       IN IF minutes < 1 THEN 1 ELSE minutes

(***************************************************************************)
(* Reading the store.                                                       *)
(***************************************************************************)
Ids(k) == DOMAIN rows[k]
Slugs(k) == { rows[k][i].slug : i \in Ids(k) }
SlugsBut(k, id) == { rows[k][i].slug : i \in Ids(k) \ {id} }
IdsBySlug(k, slug) == { i \in Ids(k) : rows[k][i].slug = slug }

TagsOf(k, id) == { l[2] : l \in { m \in tag_links[k] : m[1] = id } }
RelatedOf(k, id) == { l[2] : l \in { m \in related[k] : m[1] = id } }
CrossOf(k, id) ==
  IF k = "news" THEN { l[2] : l \in { m \in news_events : m[1] = id } }
  ELSE { l[1] : l \in { m \in news_events : m[2] = id } }

\* the rows of a query filter(id.in_(ids)): the ids that resolve
ResolveAll(ids, present) == ids
Resolve(ids, present) == ids \cap present

\* an association table with the links of one owner replaced
Relink(table, id, targets) ==
  { l \in table : l[1] # id } \cup { << id, t >> : t \in targets }

CrossRelink(k, id, targets) ==
  IF k = "news"
  THEN { l \in news_events : l[1] # id } \cup { << id, t >> : t \in targets }
  ELSE { l \in news_events : l[2] # id } \cup { << t, id >> : t \in targets }

\* the unique constraint on the slug column
UniqueIgnored(k, slug, id) == TRUE
SlugUniqueOk(k, slug, id) == slug \notin SlugsBut(k, id)

\* the foreign-key constraints of a row about to be written
FKConstraintOk(k, data) ==
  \A f \in FKFields(k) \cap DOMAIN data :
    data[f] = None \/ Val(data[f]) \in Referenced(k, f)

\* the name of the configured remote bucket, and the bucket_name the local
\* backend records
S3_BUCKET == "bucket"
LOCAL_STORAGE == "local_storage"

\* storage/router.py at import: USE_LOCAL_STORAGE is set when the flag is set,
\* when a credential or the bucket name is missing, or when head_bucket fails;
\* s3_client is the client otherwise
RouterConfig(flag, configured, probe) ==
  LET local == flag \/ ~configured \/ ~probe
  IN [USE_LOCAL_STORAGE |-> local, s3_client |-> ~local]

\* S3Storage.__init__ and _get_s3_client: the same decision, taken by the
\* singleton with a probe of its own; bucket_name is kept whatever the mode
AdapterConfig(flag, configured, probe) ==
  LET local == flag \/ ~configured \/ ~probe
  IN [use_local_storage |-> local, s3_client |-> ~local,
      bucket_name |-> IF configured THEN Some(S3_BUCKET) ELSE None]

\* a key is folder/name: the upload route files under the file type, the
\* adapter under its default folder
RouteKey(n) == << "other", n >>
AdapterKey(n) == << "uploads", n >>

\* the backend the upload route writes to while the remote store answers
RouterBucket(cfg) == IF cfg.USE_LOCAL_STORAGE THEN LOCAL_STORAGE ELSE S3_BUCKET

\* no newsletter subscription yet
NoSubscriptions ==
  /\ subscriptions = << >>
  /\ nextSubscriptionId = 1

\* the store before the first request: the tables are empty but for the
\* reference rows; stored file 1 was uploaded under the configuration cfg
InitStore(router, adapter) ==
  /\ rows = [k \in Kinds |-> << >>]
  /\ nextId = [k \in Kinds |-> 1]
  /\ tag_links = [k \in Kinds |-> {}]
  /\ related = [k \in Kinds |-> {}]
  /\ news_events = {}
  /\ req = [r \in Slots |-> [pc |-> "idle"]]
  /\ started = 0
  /\ files = [i \in StoredFileIds |->
               [bucket_name |-> RouterBucket(router), file_path |-> RouteKey(i)]]
  /\ nextFileId = 2
  /\ objects = { << RouterBucket(router), RouteKey(i) >> : i \in StoredFileIds }
  /\ nextKey = 2
  /\ storage = [router |-> router, adapter |-> adapter]
  /\ storeCall = [op |-> "none"]
  /\ comments = << >>
  /\ nextCommentId = 1

Init ==
  /\ InitStore(RouterConfig(TRUE, FALSE, FALSE), AdapterConfig(TRUE, FALSE, FALSE))
  /\ NoSubscriptions
  /\ slugCall = [pc |-> "none"]

Free(r) == req[r].pc \in {"idle", "done"} /\ started < MaxRequests

Done(op, k, in, status) ==
  [pc |-> "done", op |-> op, kind |-> k, in |-> in, status |-> status]

RowFields(k) ==
  {"title", "slug", "content", "is_published", "view_count"} \cup FKFields(k)
    \cup (IF k = "blog" THEN {"reading_time_minutes"} ELSE {})

\* create_blog and create_event look an explicit slug up before inserting;
\* create_news does not
ChecksSlugNever(k) == FALSE
ChecksSlug(k) == k \in {"blog", "event"}

\* create: a reference that is set (Python truth) and names no row is nulled
CreateFK(k, f, v) ==
  IF TruthyInt(v) /\ Val(v) \notin Referenced(k, f) THEN None ELSE v

\* update: a reference that is not None and names no row is nulled
UpdateFK(k, f, v) ==
  IF v # None /\ Val(v) \notin Referenced(k, f) THEN None ELSE v

\* tag_ids if tag_ids is not None else []
OrEmpty(o) == IF o = None THEN {} ELSE Val(o)

(***************************************************************************)
(* create_blog / create_news / create_event.                                *)
(***************************************************************************)
\* slug check or generation and validation of the references, up to the
\* construction of the row
CreateBegin(r, k, in) ==
  /\ Free(r)
  /\ started' = started + 1
  /\ LET conflict == ChecksSlug(k) /\ TruthyStr(in.slug) /\ Val(in.slug) \in Slugs(k)
         slug == IF TruthyStr(in.slug) THEN Val(in.slug)
                 ELSE generate_slug(in.title, Slugs(k))
         data == [f \in RowFields(k) |->
                   CASE f = "slug" -> slug
                     [] f = "view_count" -> 0
                     [] f = "reading_time_minutes" -> calculate_reading_time(in.content)
                     [] f \in FKFields(k) -> CreateFK(k, f, in[f])
                     [] OTHER -> in[f]]
     IN req' = [req EXCEPT ![r] =
                  IF conflict THEN Done("create", k, in, 409)
                  ELSE [pc |-> "insert", op |-> "create", kind |-> k, in |-> in,
                        data |-> data]]
  /\ UNCHANGED << dbVars, slugCall >>
  /\ UNCHANGED << storeVars, commentVars >>
  /\ UNCHANGED newsletterVars

\* db.add, db.commit, db.refresh: the insert takes the next serial id whether
\* or not it succeeds; a constraint violation raises IntegrityError, which no
\* handler catches short of global_exception_handler
CreateInsert(r) ==
  /\ req[r].pc = "insert"
  /\ LET k == req[r].kind
         id == nextId[k]
         ok == SlugUniqueOk(k, req[r].data.slug, id) /\ FKConstraintOk(k, req[r].data)
     IN /\ nextId' = [nextId EXCEPT ![k] = id + 1]
        /\ IF ok
           THEN /\ rows' = [rows EXCEPT ![k] = rows[k] @@ (id :> req[r].data)]
                /\ req' = [req EXCEPT ![r] =
                             [pc |-> "assoc", op |-> "create", kind |-> k,
                              in |-> req[r].in, id |-> id]]
           ELSE /\ rows' = rows
                /\ req' = [req EXCEPT ![r] = Done("create", k, req[r].in, 500)]
  /\ UNCHANGED << tag_links, related, news_events, started, slugCall >>
  /\ UNCHANGED << storeVars, commentVars >>
  /\ UNCHANGED newsletterVars

\* a list that is non-empty and resolves to at least one row is assigned
CreateLinks(table, id, ids, present) ==
  IF ids # {} /\ Resolve(ids, present) # {}
  THEN Relink(table, id, Resolve(ids, present))
  ELSE table

\* the tags and related items of the new row, second commit and refresh; the
\* refresh (or the link insert) fails if the row has been deleted meanwhile
CreateAssoc(r) ==
  /\ req[r].pc = "assoc"
  /\ LET k == req[r].kind
         id == req[r].id
         in == req[r].in
         cross == IF HasCross(k) THEN OrEmpty(in[CrossField(k)]) ELSE {}
     IN IF id \notin Ids(k)
        THEN /\ req' = [req EXCEPT ![r] = Done("create", k, in, 500)]
             /\ UNCHANGED << tag_links, related, news_events >>
        ELSE /\ tag_links' = [tag_links EXCEPT ![k] =
                                CreateLinks(@, id, OrEmpty(in.tag_ids), TagIds)]
             /\ related' = [related EXCEPT ![k] =
                              CreateLinks(@, id, OrEmpty(in[SelfField(k)]), Ids(k))]
             /\ news_events' =
                  IF HasCross(k) /\ cross # {} /\ Resolve(cross, Ids(CrossKind(k))) # {}
                  THEN CrossRelink(k, id, Resolve(cross, Ids(CrossKind(k))))
                  ELSE news_events
             /\ req' = [req EXCEPT ![r] = Done("create", k, in, 201) @@ [id |-> id]]
  /\ UNCHANGED << rows, nextId, started, slugCall >>
  /\ UNCHANGED << storeVars, commentVars >>
  /\ UNCHANGED newsletterVars

(***************************************************************************)
(* update_blog / update_news / update_event.  A partial input is a function *)
(* whose domain is the set of fields the request body sets.                 *)
(***************************************************************************)
\* the value the schema object gives for a field: the default when unset
Get(k, in, f) ==
  IF f \in DOMAIN in THEN in[f]
  ELSE IF f \in AssocFields(k) THEN UpdateListDefault(k)
  ELSE None

\* the title is given and differs from the stored one, and no slug is given:
\* the handler assigns a generated slug to the input object
RegeneratesSlug(k, in, row) ==
  /\ TruthyStr(Get(k, in, "title"))
  /\ Val(Get(k, in, "title")) # row.title
  /\ ~TruthyStr(Get(k, in, "slug"))

\* dict(exclude_unset=True, exclude=<association lists>): the fields set on the
\* input object, an assigned slug among them
UpdateColumns(k, in, regen) ==
  ((DOMAIN in) \ AssocFields(k)) \cup (IF regen THEN {"slug"} ELSE {})

\* update_data after the validation of the references; update_blog adds the
\* reading time when a non-empty content is given
UpdateData(k, id, in, row) ==
  LET regen == RegeneratesSlug(k, in, row)
      cols == UpdateColumns(k, in, regen)
      timed == k = "blog" /\ TruthyInt(Get(k, in, "content"))
  IN [f \in cols \cup (IF timed THEN {"reading_time_minutes"} ELSE {}) |->
        CASE f = "slug" /\ regen ->
               generate_slug(Val(in.title), SlugsBut(k, id))
          [] f = "reading_time_minutes" -> calculate_reading_time(Val(in.content))
          [] f \in FKFields(k) -> UpdateFK(k, f, Get(k, in, f))
          [] Get(k, in, f) = None -> None
          [] OTHER -> Val(Get(k, in, f))]

\* the row is read, the slug regenerated, the references validated
UpdateBegin(r, k, id, in) ==
  /\ Free(r)
  /\ started' = started + 1
  /\ req' = [req EXCEPT ![r] =
               IF id \notin Ids(k) THEN Done("update", k, in, 404)
               ELSE [pc |-> "commit", op |-> "update", kind |-> k, in |-> in,
                     id |-> id, loaded |-> rows[k][id],
                     data |-> UpdateData(k, id, in, rows[k][id])]]
  /\ UNCHANGED << dbVars, slugCall >>
  /\ UNCHANGED << storeVars, commentVars >>
  /\ UNCHANGED newsletterVars

\* the columns of update_data written over the row
Merge(row, data) ==
  [f \in DOMAIN row |-> IF f \in DOMAIN data THEN data[f] ELSE row[f]]

\* variant: the links are replaced whether or not a list is given
UpdateLinksAlways(table, id, list, present) ==
  Relink(table, id, IF list # None THEN Resolve(Val(list), present) ELSE {})

\* an association list that is not None replaces the links of the row with
\* the ids that resolve
UpdateLinks(table, id, list, present) ==
  IF list # None THEN Relink(table, id, Resolve(Val(list), present)) ELSE table

\* setattr of every column, the association lists, commit and refresh; the
\* flush fails on a slug another row holds, and on a row deleted meanwhile
UpdateCommit(r) ==
  /\ req[r].pc = "commit"
  /\ LET k == req[r].kind
         id == req[r].id
         in == req[r].in
         data == req[r].data
         cross == IF HasCross(k) THEN Get(k, in, CrossField(k)) ELSE None
         ok == /\ id \in Ids(k)
               /\ "slug" \in DOMAIN data => SlugUniqueOk(k, data.slug, id)
               /\ FKConstraintOk(k, data)
     IN IF ~ok
        THEN /\ req' = [req EXCEPT ![r] = Done("update", k, in, 500)]
             /\ UNCHANGED << rows, tag_links, related, news_events >>
        ELSE /\ rows' = [rows EXCEPT ![k][id] = Merge(@, data)]
             /\ tag_links' = [tag_links EXCEPT ![k] =
                                UpdateLinks(@, id, Get(k, in, "tag_ids"), TagIds)]
             /\ related' = [related EXCEPT ![k] =
                              UpdateLinks(@, id, Get(k, in, SelfField(k)), Ids(k))]
             /\ news_events' =
                  IF cross # None
                  THEN CrossRelink(k, id, Resolve(Val(cross), Ids(CrossKind(k))))
                  ELSE news_events
             /\ req' = [req EXCEPT ![r] = Done("update", k, in, 200) @@ [id |-> id]]
  /\ UNCHANGED << nextId, started, slugCall >>
  /\ UNCHANGED << storeVars, commentVars >>
  /\ UNCHANGED newsletterVars

(***************************************************************************)
(* delete_blog / delete_news / delete_event: the row and its links go.      *)
(***************************************************************************)
\* the comments of a deleted row stay, their owner column set to NULL (the
\* comments relationships declare no cascade)
OwnerField(k) ==
  CASE k = "blog" -> "blog_id"
    [] k = "news" -> "news_id"
    [] OTHER -> "event_id"

Orphaned(k, id) ==
  [c \in DOMAIN comments |->
     IF comments[c][OwnerField(k)] = Some(id)
     THEN [comments[c] EXCEPT ![OwnerField(k)] = None]
     ELSE comments[c]]

\* variant: the delete cascades to the stored file of the featured image
DeleteCascade(r, k, id) ==
  /\ Free(r)
  /\ started' = started + 1
  /\ id \in Ids(k)
  /\ rows' = [rows EXCEPT ![k] = [i \in Ids(k) \ {id} |-> rows[k][i]]]
  /\ files' = [i \in { j \in DOMAIN files : rows[k][id].featured_image_id # Some(j) }
                 |-> files[i]]
  /\ req' = [req EXCEPT ![r] = Done("delete", k, id, 204)]
  /\ UNCHANGED << nextId, tag_links, related, news_events, slugCall, nextFileId,
                  objects, nextKey, storage, storeCall, commentVars >>
  /\ UNCHANGED newsletterVars

Delete(r, k, id) ==
  /\ Free(r)
  /\ started' = started + 1
  /\ IF id \notin Ids(k)
     THEN /\ req' = [req EXCEPT ![r] = Done("delete", k, id, 404)]
          /\ UNCHANGED << rows, tag_links, related, news_events, comments >>
     ELSE /\ rows' = [rows EXCEPT ![k] = [i \in Ids(k) \ {id} |-> rows[k][i]]]
          /\ tag_links' = [tag_links EXCEPT ![k] = { l \in @ : l[1] # id }]
          /\ related' = [related EXCEPT ![k] = { l \in @ : l[1] # id /\ l[2] # id }]
          /\ news_events' =
               CASE k = "news" -> { l \in news_events : l[1] # id }
                 [] k = "event" -> { l \in news_events : l[2] # id }
                 [] OTHER -> news_events
          /\ comments' = Orphaned(k, id)
          /\ req' = [req EXCEPT ![r] = Done("delete", k, id, 204)]
  /\ UNCHANGED << nextId, slugCall, storeVars, nextCommentId >>
  /\ UNCHANGED newsletterVars

(***************************************************************************)
(* read_blog_by_slug / read_news_by_slug.                                   *)
(***************************************************************************)
\* The query is built with joinedload(<comments>).filter(...).  A loader
\* option has no filter method, so building the query raises before anything
\* is read; the outcome of a build whose loader option accepts the call is
\* kept beside it.
ReadBegin(r, k, slug) ==
  /\ Free(r)
  /\ started' = started + 1
  /\ \/ req' = [req EXCEPT ![r] = Done("read", k, slug, 500)]
     \/ req' = [req EXCEPT ![r] =
                  IF IdsBySlug(k, slug) = {}
                  THEN Done("read", k, slug, 404)
                  ELSE LET id == CHOOSE i \in IdsBySlug(k, slug) : TRUE
                       IN [pc |-> "view", op |-> "read", kind |-> k, in |-> slug,
                           id |-> id, loaded |-> rows[k][id].view_count]]
  /\ UNCHANGED << dbVars, slugCall >>
  /\ UNCHANGED << storeVars, commentVars >>
  /\ UNCHANGED newsletterVars

\* db_blog.view_count += 1 on the loaded object, then commit: the UPDATE
\* writes loaded + 1; it matches no row if the row has been deleted
ReadCommit(r) ==
  /\ req[r].pc = "view"
  /\ LET k == req[r].kind
         id == req[r].id
     IN IF id \notin Ids(k)
        THEN /\ req' = [req EXCEPT ![r] = Done("read", k, req[r].in, 500)]
             /\ rows' = rows
        ELSE /\ rows' = [rows EXCEPT ![k][id].view_count = req[r].loaded + 1]
             /\ req' = [req EXCEPT ![r] =
                          Done("read", k, req[r].in, 200) @@ [id |-> id]]
  /\ UNCHANGED << nextId, tag_links, related, news_events, started, slugCall >>
  /\ UNCHANGED << storeVars, commentVars >>
  /\ UNCHANGED newsletterVars

(***************************************************************************)
(* A call of generate_slug on its own: a title and the slugs the table      *)
(* holds.                                                                   *)
(***************************************************************************)
Titles == {TitleAbCd, TitleAbCd2, TitleAbCd1, TitleHello}

SlugPool ==
  {SlugAbCd, SlugHello} \cup { Suffixed(SlugAbCd, n) : n \in 1..MaxSuffix }

GenerateSlugCall ==
  /\ slugCall.pc = "call"
  /\ slugCall' = [pc |-> "return", title |-> slugCall.title, taken |-> slugCall.taken,
                  slug |-> generate_slug(slugCall.title, slugCall.taken)]
  /\ UNCHANGED << dbVars, req, started >>
  /\ UNCHANGED << storeVars, commentVars >>
  /\ UNCHANGED newsletterVars

InitGenerate ==
  /\ InitStore(RouterConfig(TRUE, FALSE, FALSE), AdapterConfig(TRUE, FALSE, FALSE))
  /\ NoSubscriptions
  /\ \E t \in Titles : \E taken \in SUBSET SlugPool :
       slugCall = [pc |-> "call", title |-> t, taken |-> taken]

SpecGenerate == InitGenerate /\ [][GenerateSlugCall]_vars

(***************************************************************************)
(* Request bodies.                                                          *)
(***************************************************************************)
CreateFields(k) ==
  {"title", "slug", "content", "is_published"} \cup FKFields(k) \cup AssocFields(k)

\* a create body that sets the title and leaves the rest at the schema defaults
Body(k, title) ==
  [f \in CreateFields(k) |->
     CASE f = "title" -> title
       [] f = "slug" -> None
       [] f = "content" -> 100
       [] f = "is_published" -> FALSE
       [] f \in FKFields(k) -> None
       [] OTHER -> Some({})]

With(in, f, v) == [in EXCEPT ![f] = v]

\* the requests of a run: create bodies and update bodies per entity, the
\* entities whose rows are deleted, the slugs read per entity
Requests(C, U, D, R) ==
  \E r \in Slots :
    \/ \E k \in Kinds : \E in \in C[k] : CreateBegin(r, k, in)
    \/ CreateInsert(r)
    \/ CreateAssoc(r)
    \/ \E k \in Kinds : \E id \in Ids(k) \cup {nextId[k]} : \E in \in U[k] :
         UpdateBegin(r, k, id, in)
    \/ UpdateCommit(r)
    \/ \E k \in D : \E id \in Ids(k) \cup {nextId[k]} : Delete(r, k, id)
    \/ \E k \in {"blog", "news"} : \E slug \in R[k] : ReadBegin(r, k, slug)
    \/ ReadCommit(r)

\* requests that differ in title and slug
SlugCreates ==
  [k \in Kinds |->
     { Body(k, TitleAbCd2),
       With(Body(k, TitleAbCd), "slug", Some(SlugAbCd)),
       With(Body(k, TitleAbCd), "slug", Some(Suffixed(SlugAbCd, 1))) }]

SlugUpdates ==
  [k \in Kinds |->
     IF k = "blog" THEN { [title |-> Some(TitleAbCd1)], [slug |-> Some(SlugAbCd)] }
     ELSE {}]

SlugReads == [k \in Kinds |-> IF k = "event" THEN {} ELSE {SlugAbCd}]

Next == Requests(SlugCreates, SlugUpdates, {"blog"}, SlugReads)

Spec == Init /\ [][Next]_vars


\* requests that differ in their foreign keys: null, 0, the id of a row (1)
\* and an id that names no row (2)
RefCreates ==
  [k \in Kinds |->
     { With(Body(k, TitleHello), f, Some(v)) : f \in FKFields(k), v \in {0, 1, 2} }]

RefUpdates ==
  [k \in Kinds |->
     IF k = "blog"
     THEN { [category_id |-> Some(0)], [author_id |-> Some(2)],
            [featured_image_id |-> None], [og_image_id |-> Some(1)] }
     ELSE {}]

RefReads == [k \in Kinds |-> IF k = "blog" THEN {SlugHello} ELSE {}]

NextRefs == Requests(RefCreates, RefUpdates, {"blog"}, RefReads)

SpecRefs == Init /\ [][NextRefs]_vars

\* requests that differ in their tags and related items, and partial updates
\* of single columns
LinkCreates ==
  [k \in Kinds |->
     { Body(k, TitleAbCd),
       With(With(Body(k, TitleAbCd), "tag_ids", Some({1, 3})), SelfField(k), Some({1, 2})) }
     \cup (IF HasCross(k)
           THEN { With(Body(k, TitleAbCd), CrossField(k), Some({1, 2})) }
           ELSE {})]

ColumnUpdates(k) ==
  { [title |-> Some(TitleHello)], [is_published |-> Some(TRUE)],
    [content |-> Some(400)], [category_id |-> Some(1)] }

LinkUpdates ==
  [k \in Kinds |->
     ColumnUpdates(k)
     \cup { [tag_ids |-> Some({2, 3})], [tag_ids |-> Some({})],
            [f \in {SelfField(k)} |-> Some({1, 2})] }
     \cup (IF HasCross(k) THEN { [f \in {CrossField(k)} |-> Some({1})] } ELSE {})]

LinkReads == [k \in Kinds |-> IF k = "news" THEN {SlugAbCd} ELSE {}]

NextLinks == Requests(LinkCreates, LinkUpdates, {"news"}, LinkReads)

SpecLinks == Init /\ [][NextLinks]_vars


(***************************************************************************)
(* Properties.                                                              *)
(***************************************************************************)
\* the result generate_slug is said to give when the first suffix tried is
\* `first`: the base slug when free, else base-k for the least k >= first
\* that is free
FirstGap(slugOut, base, taken, first) ==
  IF base \notin taken THEN slugOut = base
  ELSE \E n \in first..(Cardinality(taken) + first) :
         /\ slugOut = Suffixed(base, n)
         /\ Suffixed(base, n) \notin taken
         /\ \A j \in first..(n - 1) : Suffixed(base, j) \in taken

CollidingCreate(r, k) ==
  \E in \in SlugCreates[k] :
    /\ CreateBegin(r, k, in)
    /\ TruthyStr(in.slug)
    /\ Val(in.slug) \in Slugs(k)

Rejected(r, status) ==
  /\ req'[r].pc = "done"
  /\ req'[r].status = status
  /\ UNCHANGED dbVars

\* C2: create_blog with an explicit slug that an existing blog holds is
\* answered 409, and the blog rows and their associations are unchanged.
C2_BlogSlugConflict ==
  [][\A r \in Slots : CollidingCreate(r, "blog") => Rejected(r, 409)]_vars

\* C2 witness: a blog create with an explicit slug has been answered 409
\* while a blog row holds that slug
C2_Witness ==
  \E r \in Slots :
    /\ req[r].pc = "done" /\ req[r].op = "create" /\ req[r].kind = "blog"
    /\ req[r].status = 409
    /\ TruthyStr(req[r].in.slug)
    /\ Val(req[r].in.slug) \in Slugs("blog")

\* C3 as stated: create_news and create_event with an explicit slug that an
\* existing row of the same entity holds are answered 409 and create no row.
C3_NewsEventSlugConflict ==
  [][\A r \in Slots : \A k \in {"news", "event"} :
       CollidingCreate(r, k) => Rejected(r, 409)]_vars

\* C8 as stated: read by slug on an existing slug, no other request touching
\* the row meanwhile, returns the item with its view_count one greater; on an
\* unknown slug it answers 404 and no view_count changes.
C8_ReadBySlugCounts ==
  [][\A r \in Slots : \A k \in {"blog", "news"} :
       /\ \A slug \in SlugReads[k] :
            ReadBegin(r, k, slug) =>
              IF IdsBySlug(k, slug) = {} THEN Rejected(r, 404)
              ELSE req'[r].pc = "view"
       /\ ( /\ ReadCommit(r)
            /\ req[r].kind = k
            /\ req[r].id \in Ids(k)
            /\ rows[k][req[r].id].view_count = req[r].loaded )
          => /\ req'[r].status = 200
             /\ rows'[k][req[r].id].view_count = rows[k][req[r].id].view_count + 1
             /\ \A i \in Ids(k) \ {req[r].id} : rows'[k][i] = rows[k][i]]_vars

\* C9: no two rows of the same content type have the same slug.
C9_SlugsUnique ==
  \A k \in Kinds : \A i \in Ids(k) : \A j \in Ids(k) :
    i # j => rows[k][i].slug # rows[k][j].slug

\* C9 witness: two rows of one type exist, and an insert that would have
\* repeated a slug has been refused
C9_Witness ==
  \E k \in Kinds : \E r \in Slots :
    /\ Cardinality(Ids(k)) >= 2
    /\ req[r].pc = "done" /\ req[r].op = "create" /\ req[r].kind = k
    /\ req[r].status = 500

\* C10 as stated: a create whose insert hits the unique constraint on the
\* slug (a request that passed the check before the other one committed) is
\* answered 409, and exactly one row holds the slug afterwards.
C10_RaceLoserConflict ==
  [][\A r \in Slots :
       ( /\ CreateInsert(r)
         /\ ~SlugUniqueOk(req[r].kind, req[r].data.slug, nextId[req[r].kind]) )
       => /\ req'[r].pc = "done"
          /\ req'[r].status = 409
          /\ Cardinality({ i \in DOMAIN rows'[req[r].kind] :
                             rows'[req[r].kind][i].slug = req[r].data.slug }) = 1]_vars


\* C4 as stated: a create whose foreign keys name no row still succeeds and
\* stores null for each of them; a foreign key that resolves is stored as
\* given.  (Inserts refused for their slug are left aside.)
C4_DanglingRefsNulled ==
  [][\A r \in Slots :
       ( /\ CreateInsert(r)
         /\ SlugUniqueOk(req[r].kind, req[r].data.slug, nextId[req[r].kind]) )
       => LET k == req[r].kind
              in == req[r].in
          IN /\ req'[r].pc = "assoc"
             /\ \A f \in FKFields(k) :
                  rows'[k][nextId[k]][f] =
                    IF in[f] # None /\ Val(in[f]) \in Referenced(k, f)
                    THEN in[f] ELSE None]_vars

\* the links a row owns through an association field, and the ids that
\* resolve for that field
LinkSet(k, id, g) ==
  CASE g = "tag_ids" -> TagsOf(k, id)
    [] g = SelfField(k) -> RelatedOf(k, id)
    [] OTHER -> CrossOf(k, id)

Present(k, g) ==
  CASE g = "tag_ids" -> TagIds
    [] g = SelfField(k) -> Ids(k)
    [] OTHER -> Ids(CrossKind(k))

\* C5: after a create or an update whose body carries a list of tag ids or of
\* related-item ids, the row's links for that list are exactly the given ids
\* that resolve; an update replaces the previous links.  (For a create the
\* row is taken as the insert left it: no other request has linked it yet.)
C5_LinksAreResolvedIds ==
  [][\A r \in Slots :
       /\ ( /\ CreateAssoc(r)
            /\ req'[r].status = 201
            /\ \A g \in AssocFields(req[r].kind) :
                 LinkSet(req[r].kind, req[r].id, g) = {} )
          => \A g \in AssocFields(req[r].kind) :
               req[r].in[g] # None =>
                 LinkSet(req[r].kind, req[r].id, g)' =
                   { i \in Val(req[r].in[g]) : i \in Present(req[r].kind, g) }
       /\ ( UpdateCommit(r) /\ req'[r].status = 200 )
          => \A g \in AssocFields(req[r].kind) \cap DOMAIN req[r].in :
               req[r].in[g] # None =>
                 LinkSet(req[r].kind, req[r].id, g)' =
                   { i \in Val(req[r].in[g]) : i \in Present(req[r].kind, g) }]_vars

\* C5 witness: an update carrying tag ids 2 and 3 has completed on a row that
\* now has tag 2 alone, and a create carrying related ids has linked its row
C5_Witness ==
  /\ \E r \in Slots :
       /\ req[r].pc = "done" /\ req[r].op = "update" /\ req[r].status = 200
       /\ "tag_ids" \in DOMAIN req[r].in
       /\ req[r].in.tag_ids = Some({2, 3})
       /\ req[r].id \in Ids(req[r].kind)
       /\ TagsOf(req[r].kind, req[r].id) = {2}
  /\ \E k \in Kinds : \E i \in Ids(k) : RelatedOf(k, i) # {}

\* the rows other than row id of entity k
OtherRows(k, id) ==
  [j \in Kinds |-> [i \in Ids(j) \ (IF j = k THEN {id} ELSE {}) |-> rows[j][i]]]

\* C6 as stated: update_blog and update_news leave every stored column and
\* every association whose field is absent from the body as it was, and
\* modify no other row.
C6_AbsentFieldsKept ==
  [][\A r \in Slots :
       ( /\ UpdateCommit(r)
         /\ req[r].kind \in {"blog", "news"}
         /\ req'[r].status = 200 )
       => LET k == req[r].kind
              id == req[r].id
          IN /\ \A f \in RowFields(k) \ DOMAIN req[r].in :
                  rows'[k][id][f] = rows[k][id][f]
             /\ \A g \in AssocFields(k) \ DOMAIN req[r].in :
                  LinkSet(k, id, g)' = LinkSet(k, id, g)
             /\ OtherRows(k, id)' = OtherRows(k, id)]_vars

\* the columns an update may write although the body leaves them out: the
\* slug, when the body gives a title other than the one read and no slug, and
\* the reading time of a blog, when the body gives a content
Derived(k, in, loaded, f) ==
  \/ f = "slug" /\ RegeneratesSlug(k, in, loaded)
  \/ f = "reading_time_minutes" /\ k = "blog" /\ TruthyInt(Get(k, in, "content"))

\* C6 amended: update_blog and update_news leave every stored column and every
\* association whose field is absent from the body as it was, except the slug
\* when a title other than the stored one is given without a slug, and the
\* reading time of a blog when a content is given; no other row is modified.
C6_AbsentFieldsKeptButDerived ==
  [][\A r \in Slots :
       ( /\ UpdateCommit(r)
         /\ req[r].kind \in {"blog", "news"}
         /\ req'[r].status = 200 )
       => LET k == req[r].kind
              id == req[r].id
          IN /\ \A f \in RowFields(k) \ DOMAIN req[r].in :
                  \/ Derived(k, req[r].in, req[r].loaded, f)
                  \/ rows'[k][id][f] = rows[k][id][f]
             /\ \A g \in AssocFields(k) \ DOMAIN req[r].in :
                  LinkSet(k, id, g)' = LinkSet(k, id, g)
             /\ OtherRows(k, id)' = OtherRows(k, id)]_vars

\* C6 witness: an update that set is_published alone has completed on a row
\* that kept its title, its slug and its tag
C6_Witness ==
  \E r \in Slots :
    /\ req[r].pc = "done" /\ req[r].op = "update" /\ req[r].status = 200
    /\ req[r].kind \in {"blog", "news"}
    /\ DOMAIN req[r].in = {"is_published"}
    /\ req[r].id \in Ids(req[r].kind)
    /\ rows[req[r].kind][req[r].id].is_published = TRUE
    /\ rows[req[r].kind][req[r].id].title = TitleAbCd
    /\ rows[req[r].kind][req[r].id].slug = SlugAbCd
    /\ TagsOf(req[r].kind, req[r].id) = {1}

\* C7 as stated: update_event with a body that carries none of tag_ids,
\* related_news_ids and related_event_ids leaves the event's tags and related
\* items as they were.
C7_EventLinksKept ==
  [][\A r \in Slots :
       ( /\ UpdateCommit(r)
         /\ req[r].kind = "event"
         /\ req'[r].status = 200
         /\ AssocFields("event") \cap DOMAIN req[r].in = {} )
       => \A g \in AssocFields("event") :
            LinkSet("event", req[r].id, g)' = LinkSet("event", req[r].id, g)]_vars

(***************************************************************************)
(* File storage: the routes of storage/router.py.                           *)
(***************************************************************************)
\* variant: no payload counts as empty
NeverEmpty(size) == FALSE

\* "not contents": a payload of zero bytes
Empty(size) == size = 0

\* using_s3 of upload_file
UsingS3(cfg) == cfg.s3_client /\ ~cfg.USE_LOCAL_STORAGE

\* the content columns that refer to stored_files
FileFields(k) == FKFields(k) \cap {"featured_image_id", "og_image_id"}

\* a content row holds a foreign key on the stored file
FileReferenced(id) ==
  \E k \in Kinds : \E i \in Ids(k) : \E f \in FileFields(k) : rows[k][i][f] = Some(id)

\* the body of the answer global_exception_handler gives
GenericDetail == << "Internal server error. The error has been logged." >>

\* str(e) of the exception a handler caught
ExceptionText == "str(e)"

\* the detail of the HTTPException upload_file raises from except Exception
UploadErrorDetail(e) == << "Unexpected error occurred: ", e >>

\* the detail of the HTTPException delete_file raises from except ClientError
DeleteErrorDetail(e) == << "Failed to delete file from S3: ", e >>

\* the body of a 500 answer: the detail of the HTTPException the handler
\* raised itself, or else what global_exception_handler answers
Detail(answer) ==
  IF "detail" \in DOMAIN answer THEN answer.detail ELSE GenericDetail

\* upload_file up to the write of the object: an empty payload is refused;
\* put_object stores the object in the bucket, or raises ClientError and the
\* object goes to local storage instead, or raises another error, which ends
\* the request; without a client the object goes to local storage
UploadBegin(r, size) ==
  /\ Free(r)
  /\ started' = started + 1
  /\ IF Empty(size)
     THEN /\ req' = [req EXCEPT ![r] = Done("upload", "file", size, 400)]
          /\ UNCHANGED << objects, nextKey >>
     ELSE /\ nextKey' = nextKey + 1
          /\ \E outcome \in (IF UsingS3(storage.router)
                            THEN {"stored", "ClientError", "error"}
                            ELSE {"local"}) :
               LET bucket == IF outcome = "stored" THEN S3_BUCKET ELSE LOCAL_STORAGE
               IN IF outcome = "error"
                  THEN /\ req' = [req EXCEPT ![r] =
                                    Done("upload", "file", size, 500) @@
                                      [detail |-> UploadErrorDetail(ExceptionText)]]
                       /\ objects' = objects
                  ELSE /\ objects' = objects \cup { << bucket, RouteKey(nextKey) >> }
                       /\ req' = [req EXCEPT ![r] =
                                    [pc |-> "store", op |-> "upload", kind |-> "file",
                                     in |-> size, bucket |-> bucket,
                                     key |-> RouteKey(nextKey)]]
  /\ UNCHANGED << dbVars, slugCall, files, nextFileId, storage, storeCall, commentVars >>
  /\ UNCHANGED newsletterVars

\* the StoredFile row: db.add, db.commit, db.refresh
UploadCommit(r) ==
  /\ req[r].pc = "store"
  /\ files' = files @@ (nextFileId :>
                [bucket_name |-> req[r].bucket, file_path |-> req[r].key])
  /\ nextFileId' = nextFileId + 1
  /\ req' = [req EXCEPT ![r] =
               Done("upload", "file", req[r].in, 200)
                 @@ [id |-> nextFileId, bucket |-> req[r].bucket, key |-> req[r].key]]
  /\ UNCHANGED << dbVars, started, slugCall, objects, nextKey, storage, storeCall,
                  commentVars >>
  /\ UNCHANGED newsletterVars

\* delete_file up to the removal of the object: s3_client.delete_object is
\* called whatever the backend of the row.  Without a client the call raises
\* AttributeError, which the handler does not catch; for a row of local
\* storage the store is asked for a bucket named local_storage and raises
\* ClientError; for a row of the bucket the object is removed, unless the store
\* fails
DeleteFileBegin(r, id) ==
  /\ Free(r)
  /\ started' = started + 1
  /\ IF id \notin DOMAIN files
     THEN /\ req' = [req EXCEPT ![r] = Done("delete_file", "file", id, 404)]
          /\ objects' = objects
     ELSE LET row == files[id]
              gone == [pc |-> "remove", op |-> "delete_file", kind |-> "file",
                       in |-> id, row |-> row]
              failed == Done("delete_file", "file", id, 500) @@ [row |-> row]
              caught == [detail |-> DeleteErrorDetail(ExceptionText)]
          IN IF ~storage.router.s3_client
             THEN /\ req' = [req EXCEPT ![r] = failed]
                  /\ objects' = objects
             ELSE IF row.bucket_name # S3_BUCKET
             THEN /\ req' = [req EXCEPT ![r] = failed @@ caught]
                  /\ objects' = objects
             ELSE \/ /\ req' = [req EXCEPT ![r] = gone]
                     /\ objects' = objects \ { << row.bucket_name, row.file_path >> }
                  \/ /\ req' = [req EXCEPT ![r] =
                                  failed @@ caught @@ [cause |-> "ClientError"]]
                     /\ objects' = objects
  /\ UNCHANGED << dbVars, slugCall, files, nextFileId, nextKey, storage, storeCall,
                  commentVars >>
  /\ UNCHANGED newsletterVars

\* db.delete and db.commit: the delete of a row that a content row refers to
\* violates the foreign key and raises IntegrityError
DeleteFileCommit(r) ==
  /\ req[r].pc = "remove"
  /\ LET id == req[r].in
     IN IF id \in DOMAIN files /\ FileReferenced(id)
        THEN /\ req' = [req EXCEPT ![r] =
                          Done("delete_file", "file", id, 500) @@ [row |-> req[r].row]]
             /\ files' = files
        ELSE /\ files' = [i \in DOMAIN files \ {id} |-> files[i]]
             /\ req' = [req EXCEPT ![r] =
                          Done("delete_file", "file", id, 204) @@ [row |-> req[r].row]]
  /\ UNCHANGED << dbVars, started, slugCall, nextFileId, objects, nextKey, storage,
                  storeCall, commentVars >>
  /\ UNCHANGED newsletterVars

(***************************************************************************)
(* File storage: the S3Storage singleton of storage/s3.py.                  *)
(***************************************************************************)
\* what a method returned: success, and whether it went through s3_client
Returned(op, key, success, client, existed) ==
  [op |-> op, key |-> key, success |-> success, client |-> client,
   existed |-> existed]

\* variant: the remote branch whatever the mode
TakesRemoteAlways(adapter) == TRUE

\* a method takes the remote branch when the adapter is not in local mode
TakesRemote(adapter) == ~adapter.use_local_storage

\* delete_file takes the local branch in local mode and for the bucket
\* named local_storage
DeletesLocally(adapter, bucket) ==
  ~TakesRemote(adapter) \/ bucket = Some(LOCAL_STORAGE)

\* _delete_local_file: a file that is not there is reported as a failure
LocalDeleteResult(existed) == existed

\* S3Storage.upload_file: an empty payload is refused; the object goes to
\* local storage or to the bucket, where a ClientError is reported
AdapterUpload(size) ==
  /\ started < MaxRequests
  /\ started' = started + 1
  /\ IF Empty(size)
     THEN /\ storeCall' = Returned("upload", size, FALSE, FALSE, FALSE)
          /\ UNCHANGED << objects, nextKey >>
     ELSE /\ nextKey' = nextKey + 1
          /\ IF ~TakesRemote(storage.adapter)
             THEN /\ objects' = objects \cup { << LOCAL_STORAGE, AdapterKey(nextKey) >> }
                  /\ storeCall' = Returned("upload", size, TRUE, FALSE, FALSE)
             ELSE \/ /\ objects' = objects \cup { << S3_BUCKET, AdapterKey(nextKey) >> }
                     /\ storeCall' = Returned("upload", size, TRUE, TRUE, FALSE)
                  \/ /\ objects' = objects
                     /\ storeCall' = Returned("upload", size, FALSE, TRUE, FALSE)
  /\ UNCHANGED << dbVars, req, slugCall, files, nextFileId, storage, commentVars >>
  /\ UNCHANGED newsletterVars

\* S3Storage.delete_file(file_key, bucket_name): delete_object answers success
\* whether or not the key names an object, and ClientError when the store fails
AdapterDelete(key, hint) ==
  /\ started < MaxRequests
  /\ started' = started + 1
  /\ LET adapter == storage.adapter
         bucket == IF hint # None THEN hint ELSE adapter.bucket_name
     IN IF DeletesLocally(adapter, bucket)
        THEN LET existed == << LOCAL_STORAGE, key >> \in objects
             IN /\ objects' = objects \ { << LOCAL_STORAGE, key >> }
                /\ storeCall' = Returned("delete", key, LocalDeleteResult(existed),
                                         FALSE, existed)
        ELSE IF ~adapter.s3_client
        THEN /\ objects' = objects
             /\ storeCall' = Returned("delete", key, FALSE, FALSE, FALSE)
        ELSE LET existed == << Val(bucket), key >> \in objects
             IN \/ /\ objects' = objects \ { << Val(bucket), key >> }
                   /\ storeCall' = Returned("delete", key, TRUE, TRUE, existed)
                \/ /\ objects' = objects
                   /\ storeCall' = Returned("delete", key, FALSE, TRUE, existed)
                                     @@ [cause |-> "ClientError"]
  /\ UNCHANGED << dbVars, req, slugCall, files, nextFileId, nextKey, storage,
                  commentVars >>
  /\ UNCHANGED newsletterVars

\* S3Storage.get_file_url and S3Storage.list_files: answered from the local
\* directory in local mode, through the client otherwise
AdapterQuery(op, key) ==
  /\ started < MaxRequests
  /\ started' = started + 1
  /\ IF ~TakesRemote(storage.adapter)
     THEN storeCall' = Returned(op, key, TRUE, FALSE, FALSE)
     ELSE IF ~storage.adapter.s3_client
     THEN storeCall' = Returned(op, key, FALSE, FALSE, FALSE)
     ELSE \E success \in BOOLEAN : storeCall' = Returned(op, key, success, TRUE, FALSE)
  /\ UNCHANGED << dbVars, req, slugCall, files, nextFileId, objects, nextKey, storage,
                  commentVars >>
  /\ UNCHANGED newsletterVars

\* the process configurations: the flag, the presence of the credentials and
\* the bucket name, and the outcome of each of the two head_bucket probes
InitStorage ==
  /\ \E flag \in BOOLEAN, configured \in BOOLEAN, probe \in BOOLEAN, probe2 \in BOOLEAN :
       InitStore(RouterConfig(flag, configured, probe),
                 AdapterConfig(flag, configured, probe2))
  /\ NoSubscriptions
  /\ slugCall = [pc |-> "none"]

\* payload sizes, the keys handed to the adapter, the bucket hints
Sizes == {0, 1}
Hints == {None, Some(S3_BUCKET), Some(LOCAL_STORAGE)}

\* a create body that refers to stored file 1 as its featured image
ImageCreates(k) == { With(Body(k, TitleHello), "featured_image_id", Some(1)) }

NextStorage ==
  \/ \E r \in Slots :
       \/ \E size \in Sizes : UploadBegin(r, size)
       \/ UploadCommit(r)
       \/ \E id \in 1..nextFileId : DeleteFileBegin(r, id)
       \/ DeleteFileCommit(r)
       \/ \E in \in ImageCreates("blog") : CreateBegin(r, "blog", in)
       \/ CreateInsert(r)
       \/ CreateAssoc(r)
       \/ \E id \in Ids("blog") \cup {nextId["blog"]} : Delete(r, "blog", id)
  \/ \E size \in Sizes : AdapterUpload(size)
  \/ \E n \in 1..nextKey : \E hint \in Hints : AdapterDelete(AdapterKey(n), hint)
  \/ \E op \in {"url", "list"} : AdapterQuery(op, AdapterKey(1))

SpecStorage == InitStorage /\ [][NextStorage]_vars

(***************************************************************************)
(* Properties of the storage routes and of the adapter.                     *)
(***************************************************************************)
\* C11: the delete of a content row (whose featured image may refer to a
\* stored file) removes that row alone: the stored_files table and the objects
\* of the backends are as before, and so is every other content row; the
\* delete of an id that names no row answers 404 and changes nothing.
C11_DeleteKeepsStoredFile ==
  [][\A r \in Slots : \A k \in Kinds : \A id \in Ids(k) \cup {nextId[k]} :
       Delete(r, k, id)
       => /\ files' = files
          /\ objects' = objects
          /\ OtherRows(k, id)' = OtherRows(k, id)
          /\ IF id \in Ids(k)
             THEN req'[r].status = 204 /\ Ids(k)' = Ids(k) \ {id}
             ELSE /\ req'[r].status = 404
                  /\ UNCHANGED << dbVars, commentVars >>]_vars

\* C11 witness: a blog created with stored file 1 as its featured image has
\* been deleted, and the file row and its object are there
C11_Witness ==
  \E r \in Slots :
    /\ req[r].pc = "done" /\ req[r].op = "delete" /\ req[r].status = 204
    /\ 1 \in DOMAIN files
    /\ << files[1].bucket_name, files[1].file_path >> \in objects

\* a delete_file request has removed the object of the row and has yet to
\* delete the row
BeingDeleted(id) ==
  \E r \in Slots : req[r].pc = "remove" /\ req[r].in = id

\* C12 as stated: every stored_files row has its object in the backend its
\* bucket_name names, at its file_path, in every state outside the two steps
\* of a delete_file request on that row.
C12_RowHasObject ==
  \A id \in DOMAIN files :
    ~BeingDeleted(id) => << files[id].bucket_name, files[id].file_path >> \in objects

\* C13 as stated: a delete by the adapter of a key that names no object
\* reports success on either backend; only a failure of the backend is
\* reported as unsuccessful.
C13_DeleteIdempotent ==
  ( /\ storeCall.op = "delete"
    /\ ~storeCall.existed
    /\ "cause" \notin DOMAIN storeCall )
  => storeCall.success

\* request r ends a delete_file request on a row that was there, the store
\* not having failed
EndsDeleteFile(r) ==
  /\ req'[r] # req[r]
  /\ req'[r].pc = "done"
  /\ req'[r].op = "delete_file"
  /\ req'[r].status # 404
  /\ "cause" \notin DOMAIN req'[r]

\* C14 as stated: DELETE /storage/files/{id} of an existing row succeeds and
\* leaves neither the row nor its object, whichever backend holds the object.
C14_DeleteFileRemovesBoth ==
  [][\A r \in Slots :
       EndsDeleteFile(r)
       => /\ req'[r].status = 204
          /\ req'[r].in \notin DOMAIN files'
          /\ << req'[r].row.bucket_name, req'[r].row.file_path >> \notin objects']_vars

\* C15: an upload of zero bytes is refused, with 400 by the route and with
\* success = False by the adapter; no object is written and no row created.
C15_EmptyUploadRefused ==
  [][/\ \A r \in Slots :
          UploadBegin(r, 0)
          => /\ req'[r].pc = "done" /\ req'[r].status = 400
             /\ objects' = objects /\ files' = files
     /\ AdapterUpload(0)
          => /\ ~storeCall'.success
             /\ objects' = objects /\ files' = files]_vars

\* C15 witness: the route has refused an empty upload with 400 and the
\* adapter has refused one
C15_Witness ==
  /\ \E r \in Slots :
       req[r].pc = "done" /\ req[r].op = "upload" /\ req[r].in = 0
         /\ req[r].status = 400
  /\ storeCall.op = "upload" /\ storeCall.key = 0 /\ ~storeCall.success

\* the rows the upload route has created since the process started
Uploaded == DOMAIN files \ StoredFileIds

\* C16 as stated: all rows of the uploads of one process carry the same
\* bucket_name.
C16_OneBackendPerProcess ==
  \A i \in Uploaded : \A j \in Uploaded : files[i].bucket_name = files[j].bucket_name

\* the objects of the remote bucket
RemoteObjects == { o \in objects : o[1] = S3_BUCKET }

\* C17: an adapter in local mode stays in local mode, and none of its calls
\* goes through the client of the remote store or changes an object there.
C17_LocalModeIsPermanent ==
  [][storage.adapter.use_local_storage
       => /\ storage'.adapter.use_local_storage
          /\ storeCall'.op # "none" => ~storeCall'.client
          /\ req' = req => RemoteObjects' = RemoteObjects]_vars

\* C17 witness: an adapter in local mode, with the bucket configured, has
\* stored an object and deleted it
C17_Witness ==
  /\ storage.adapter.use_local_storage
  /\ storage.adapter.bucket_name = Some(S3_BUCKET)
  /\ storeCall.op = "delete" /\ storeCall.success /\ storeCall.existed

(***************************************************************************)
(* Comments: create_comment, read_comments, approve_comment and             *)
(* delete_comment of the comment router, create_blog_comment and            *)
(* read_blog_comments of the blog router.                                   *)
(***************************************************************************)
ContentTypes == {"news", "event"}

\* the fields of CommentCreate that reach the row; a body field the schema
\* does not declare (is_approved) is dropped by the parse
CommentCreateFields == {"content_type", "news_id", "event_id"}

\* is_approved = Column(Boolean, default=False)
DefaultApproved == FALSE

\* model.Comment(**comment_data): the declared fields of the body, the other
\* columns at their defaults
CommentRow(in) ==
  [f \in CommentCreateFields |-> in[f]]
    @@ [blog_id |-> None, is_approved |-> DefaultApproved]

\* the foreign keys of a comment row
CommentFKOk(row) ==
  /\ row.news_id = None \/ Val(row.news_id) \in Ids("news")
  /\ row.event_id = None \/ Val(row.event_id) \in Ids("event")
  /\ row.blog_id = None \/ Val(row.blog_id) \in Ids("blog")

\* create_comment: the owner named by content_type must be given (400) and
\* exist (404); the other owner id is stored as given, and fails the insert
\* if it names no row
CreateComment(r, in) ==
  /\ Free(r)
  /\ started' = started + 1
  /\ LET owner == in[OwnerField(in.content_type)]
         row == CommentRow(in)
         status == CASE owner = None -> 400
                     [] Val(owner) \notin Ids(in.content_type) -> 404
                     [] ~CommentFKOk(row) -> 500
                     [] OTHER -> 201
     IN /\ req' = [req EXCEPT ![r] =
                     Done("comment", in.content_type, in, status)
                       @@ [id |-> nextCommentId]]
        /\ comments' = IF status = 201 THEN comments @@ (nextCommentId :> row)
                       ELSE comments
        /\ nextCommentId' = IF status \in {201, 500} THEN nextCommentId + 1
                            ELSE nextCommentId
  /\ UNCHANGED << dbVars, slugCall, storeVars >>
  /\ UNCHANGED newsletterVars

\* create_blog_comment: the comment of a blog takes content_type news and
\* the blog id of the path
CreateBlogComment(r, blog_id) ==
  /\ Free(r)
  /\ started' = started + 1
  /\ IF blog_id \notin Ids("blog")
     THEN /\ req' = [req EXCEPT ![r] = Done("comment", "blog", blog_id, 404)]
          /\ UNCHANGED commentVars
     ELSE /\ comments' = comments @@ (nextCommentId :>
                 [content_type |-> "news", news_id |-> None, event_id |-> None,
                  blog_id |-> Some(blog_id), is_approved |-> DefaultApproved])
          /\ nextCommentId' = nextCommentId + 1
          /\ req' = [req EXCEPT ![r] =
                       Done("comment", "blog", blog_id, 200) @@ [id |-> nextCommentId]]
  /\ UNCHANGED << dbVars, slugCall, storeVars >>
  /\ UNCHANGED newsletterVars

\* variant: approve flips the flag
Toggled(row) == [row EXCEPT !.is_approved = ~@]

\* db_comment.is_approved = True
Approved(row) == [row EXCEPT !.is_approved = TRUE]

approve_comment(r, id) ==
  /\ Free(r)
  /\ started' = started + 1
  /\ IF id \notin DOMAIN comments
     THEN /\ req' = [req EXCEPT ![r] = Done("approve", "comment", id, 404)]
          /\ comments' = comments
     ELSE /\ comments' = [comments EXCEPT ![id] = Approved(@)]
          /\ req' = [req EXCEPT ![r] = Done("approve", "comment", id, 200)]
  /\ UNCHANGED << dbVars, slugCall, storeVars, nextCommentId >>
  /\ UNCHANGED newsletterVars

delete_comment(r, id) ==
  /\ Free(r)
  /\ started' = started + 1
  /\ IF id \notin DOMAIN comments
     THEN /\ req' = [req EXCEPT ![r] = Done("uncomment", "comment", id, 404)]
          /\ comments' = comments
     ELSE /\ comments' = [c \in DOMAIN comments \ {id} |-> comments[c]]
          /\ req' = [req EXCEPT ![r] = Done("uncomment", "comment", id, 204)]
  /\ UNCHANGED << dbVars, slugCall, storeVars, nextCommentId >>
  /\ UNCHANGED newsletterVars

\* variant: a listing without the filter
VisibleAll(row, approved_only) == TRUE

\* the is_approved filter of a listing
Visible(row, approved_only) == approved_only => row.is_approved

\* the rows a query of read_comments(content_type, approved_only) returns,
\* and those of read_blog_comments(blog_id)
CommentsListed(content_type, approved_only) ==
  { c \in DOMAIN comments :
      /\ content_type # None => comments[c].content_type = Val(content_type)
      /\ Visible(comments[c], approved_only) }

BlogCommentsListed(blog_id) ==
  { c \in DOMAIN comments :
      comments[c].blog_id = Some(blog_id) /\ Visible(comments[c], TRUE) }

read_comments(r, content_type, approved_only) ==
  /\ Free(r)
  /\ started' = started + 1
  /\ req' = [req EXCEPT ![r] =
               Done("list", "comment", approved_only, 200)
                 @@ [result |-> CommentsListed(content_type, approved_only)]]
  /\ UNCHANGED << dbVars, slugCall, storeVars, commentVars >>
  /\ UNCHANGED newsletterVars

\* read_blog_comments(blog_id): the approved comments of the blog
read_blog_comments(r, blog_id) ==
  /\ Free(r)
  /\ started' = started + 1
  /\ req' = [req EXCEPT ![r] =
               IF blog_id \notin Ids("blog")
               THEN Done("list", "blog", TRUE, 404) @@ [result |-> {}]
               ELSE Done("list", "blog", TRUE, 200)
                      @@ [result |-> BlogCommentsListed(blog_id)]]
  /\ UNCHANGED << dbVars, slugCall, storeVars, commentVars >>
  /\ UNCHANGED newsletterVars

\* the row create_blog / create_news / create_event leave for Body(k, TitleHello)
SeedRow(k) ==
  [f \in RowFields(k) |->
     CASE f = "slug" -> generate_slug(TitleHello, {})
       [] f = "view_count" -> 0
       [] f = "reading_time_minutes" -> calculate_reading_time(Body(k, TitleHello).content)
       [] f \in FKFields(k) -> None
       [] OTHER -> Body(k, TitleHello)[f]]

\* one blog, one news item and one event have been created; no comment yet
InitComments ==
  /\ rows = [k \in Kinds |-> (1 :> SeedRow(k))]
  /\ nextId = [k \in Kinds |-> 2]
  /\ tag_links = [k \in Kinds |-> {}]
  /\ related = [k \in Kinds |-> {}]
  /\ news_events = {}
  /\ req = [r \in Slots |-> [pc |-> "idle"]]
  /\ started = 0
  /\ slugCall = [pc |-> "none"]
  /\ files = [i \in StoredFileIds |->
               [bucket_name |-> LOCAL_STORAGE, file_path |-> RouteKey(i)]]
  /\ nextFileId = 2
  /\ objects = { << LOCAL_STORAGE, RouteKey(i) >> : i \in StoredFileIds }
  /\ nextKey = 2
  /\ storage = [router |-> RouterConfig(TRUE, FALSE, FALSE),
                adapter |-> AdapterConfig(TRUE, FALSE, FALSE)]
  /\ storeCall = [op |-> "none"]
  /\ comments = << >>
  /\ nextCommentId = 1
  /\ NoSubscriptions

\* comment bodies: the owner of the stated type given or not, the owner of
\* the other type given or not, naming a row (1) or none (2); is_approved
\* left out or sent as true
CommentBodies ==
  { [content_type |-> t, news_id |-> n, event_id |-> e, is_approved |-> a] :
      t \in ContentTypes, n \in {None, Some(1), Some(2)}, e \in {None, Some(1)},
      a \in {None, Some(TRUE)} }

NextComments ==
  \E r \in Slots :
    \/ \E in \in CommentBodies : CreateComment(r, in)
    \/ \E id \in 1..nextId["blog"] : CreateBlogComment(r, id)
    \/ \E id \in 1..nextCommentId : approve_comment(r, id)
    \/ \E id \in 1..nextCommentId : delete_comment(r, id)
    \/ \E t \in {None, Some("news")} : \E approved_only \in BOOLEAN :
         read_comments(r, t, approved_only)
    \/ \E id \in 1..nextId["blog"] : read_blog_comments(r, id)
    \/ \E k \in Kinds : Delete(r, k, 1)

SpecComments == InitComments /\ [][NextComments]_vars

(***************************************************************************)
(* Properties of the comments.                                              *)
(***************************************************************************)
\* the comments a listing with the default filter returns in this state
DefaultListed ==
  UNION ( { CommentsListed(t, TRUE) : t \in {None} \cup { Some(k) : k \in ContentTypes } }
            \cup { BlogCommentsListed(id) : id \in Ids("blog") } )

\* C18: a comment is created unapproved whatever the body says, becomes
\* approved by approve_comment alone, and a listing with the default filter
\* returns approved comments only; so a comment a default listing returns has
\* been approved since it was created.
C18_ListedOnlyAfterApprove ==
  [][/\ \A c \in DOMAIN comments' \ DOMAIN comments : ~comments'[c].is_approved
     /\ \A c \in DOMAIN comments' \cap DOMAIN comments :
          (comments'[c].is_approved /\ ~comments[c].is_approved)
            => \E r \in Slots : approve_comment(r, c)
     /\ \A c \in DefaultListed : comments[c].is_approved]_vars

\* C18 witness: a default listing has returned a comment, approved by the
\* other request
C18_Witness ==
  \E r \in Slots : \E q \in Slots :
    /\ req[r].pc = "done" /\ req[r].op = "list" /\ req[r].in = TRUE
    /\ req[q].pc = "done" /\ req[q].op = "approve" /\ req[q].status = 200
    /\ req[q].in \in req[r].result

\* C19: an approved comment stays approved as long as it exists, a second
\* approve included.
C19_ApprovalOneWay ==
  [][\A c \in DOMAIN comments \cap DOMAIN comments' :
       comments[c].is_approved => comments'[c].is_approved]_vars

\* C19 witness: both requests have approved the same comment, which is
\* approved
C19_Witness ==
  \E c \in DOMAIN comments :
    /\ comments[c].is_approved
    /\ \A r \in Slots :
         req[r].pc = "done" /\ req[r].op = "approve" /\ req[r].in = c
           /\ req[r].status = 200

\* C20 as stated: the owner id named by the content_type of a comment is set
\* and its other owner ids are null.
C20_DiscriminatorMatchesOwner ==
  \A c \in DOMAIN comments :
    \A k \in Kinds :
      (comments[c][OwnerField(k)] # None) <=> (k = comments[c].content_type)

\* ---------------------------------------------------------------------
\* Newsletter subscriptions (blog/router.py, blog/model.py)
\* ---------------------------------------------------------------------

Emails == {"a@x", "b@x"}

\* the NewsletterSubscription columns; a timestamp is the number of the
\* request that wrote it, a token the number of the request that drew it
SubscriptionRow(email, token) ==
  [email |-> email, is_confirmed |-> FALSE, confirmation_token |-> Some(token),
   confirmed_at |-> None, unsubscribed_at |-> None, is_active |-> TRUE]

\* filter(email == ...).first()
ByEmail(email) == {id \in DOMAIN subscriptions : subscriptions[id].email = email}

\* filter(confirmation_token == ...).first()
ByToken(token) ==
  {id \in DOMAIN subscriptions : subscriptions[id].confirmation_token = Some(token)}

First(ids) == CHOOSE id \in ids : \A other \in ids : id <= other

\* variant: an active row is written to as well
NeedsWriteAlways(row) == TRUE

\* create_subscription writes to an existing row only if it is inactive
NeedsWrite(row) == ~row.is_active

\* variant: reactivation starts the confirmation over
ReactivationFresh(row) ==
  [is_active |-> TRUE, unsubscribed_at |-> None, is_confirmed |-> FALSE]

\* the attributes create_subscription assigns to an inactive row
Reactivation(row) == [is_active |-> TRUE, unsubscribed_at |-> None]

\* variant: the token stays on the row
ConfirmationKeepsToken(now) ==
  [is_confirmed |-> TRUE, confirmed_at |-> Some(now)]

\* the attributes confirm_subscription assigns
Confirmation(now) ==
  [is_confirmed |-> TRUE, confirmed_at |-> Some(now), confirmation_token |-> None]

\* the attributes unsubscribe assigns
Unsubscription(now) == [is_active |-> FALSE, unsubscribed_at |-> Some(now)]

\* db.commit() of a loaded, modified object: the UPDATE sets the columns
\* whose assigned value differs from the value the request loaded
Flush(row, loaded, assigned) ==
  [f \in DOMAIN row |->
     IF f \in DOMAIN assigned /\ assigned[f] # loaded[f] THEN assigned[f] ELSE row[f]]

NewsletterDone(op, in, status, id, message) ==
  Done(op, "newsletter", in, status) @@
    [n |-> started + 1, id |-> id, message |-> message]

NewsletterPending(pc, op, in, id) ==
  [pc |-> pc, op |-> op, kind |-> "newsletter", in |-> in, n |-> started + 1,
   id |-> id, now |-> started + 1,
   loaded |-> IF id \in DOMAIN subscriptions THEN subscriptions[id]
              ELSE SubscriptionRow(in, started + 1)]

NewsletterFrame ==
  UNCHANGED << dbVars, slugCall, storeVars, commentVars >>

\* POST /newsletter/subscribe up to its commit
SubscribeBegin(r, email) ==
  /\ Free(r)
  /\ started' = started + 1
  /\ LET ids == ByEmail(email) IN
       IF ids # {}
       THEN LET id == First(ids) IN
              IF NeedsWrite(subscriptions[id])
              THEN req' = [req EXCEPT ![r] =
                             NewsletterPending("reactivate", "subscribe", email, id)]
              ELSE req' = [req EXCEPT ![r] =
                             NewsletterDone("subscribe", email, 200, id,
                                            "already subscribed")]
       ELSE req' = [req EXCEPT ![r] =
                      NewsletterPending("insert", "subscribe", email, 0)]
  /\ UNCHANGED newsletterVars
  /\ NewsletterFrame

\* the commit of create_subscription: the UPDATE of the reactivated row, or
\* the INSERT of the new one, which the unique index on email can refuse
SubscribeCommit(r) ==
  /\ req[r].pc \in {"reactivate", "insert"}
  /\ IF req[r].pc = "reactivate"
     THEN /\ subscriptions' =
               [subscriptions EXCEPT ![req[r].id] =
                  Flush(@, req[r].loaded, Reactivation(req[r].loaded))]
          /\ UNCHANGED nextSubscriptionId
          /\ req' = [req EXCEPT ![r] =
                       Done("subscribe", "newsletter", req[r].in, 200) @@
                         [n |-> req[r].n, id |-> req[r].id,
                          message |-> "reactivated"]]
     ELSE /\ nextSubscriptionId' = nextSubscriptionId + 1
          /\ IF ByEmail(req[r].in) # {}
             THEN /\ UNCHANGED subscriptions
                  /\ req' = [req EXCEPT ![r] =
                               Done("subscribe", "newsletter", req[r].in, 500) @@
                                 [n |-> req[r].n, id |-> 0, message |-> "none"]]
             ELSE /\ subscriptions' =
                       subscriptions @@ (nextSubscriptionId :> req[r].loaded)
                  /\ req' = [req EXCEPT ![r] =
                               Done("subscribe", "newsletter", req[r].in, 200) @@
                                 [n |-> req[r].n, id |-> nextSubscriptionId,
                                  message |-> "none"]]
  /\ UNCHANGED started
  /\ NewsletterFrame

\* GET /newsletter/confirm/{token} up to its commit
ConfirmBegin(r, token) ==
  /\ Free(r)
  /\ started' = started + 1
  /\ LET ids == ByToken(token) IN
       IF ids = {}
       THEN req' = [req EXCEPT ![r] =
                      NewsletterDone("confirm", token, 404, 0, "none")]
       ELSE req' = [req EXCEPT ![r] =
                      NewsletterPending("confirm", "confirm", token, First(ids))]
  /\ UNCHANGED newsletterVars
  /\ NewsletterFrame

\* the commit of confirm_subscription
ConfirmCommit(r) ==
  /\ req[r].pc = "confirm"
  /\ subscriptions' =
       [subscriptions EXCEPT ![req[r].id] =
          Flush(@, req[r].loaded, Confirmation(req[r].now))]
  /\ req' = [req EXCEPT ![r] =
               Done("confirm", "newsletter", req[r].in, 200) @@
                 [n |-> req[r].n, id |-> req[r].id, message |-> "none"]]
  /\ UNCHANGED << started, nextSubscriptionId >>
  /\ NewsletterFrame

\* POST /newsletter/unsubscribe up to its commit
UnsubscribeBegin(r, email) ==
  /\ Free(r)
  /\ started' = started + 1
  /\ LET ids == ByEmail(email) IN
       IF ids = {}
       THEN req' = [req EXCEPT ![r] =
                      NewsletterDone("unsubscribe", email, 404, 0, "none")]
       ELSE req' = [req EXCEPT ![r] =
                      NewsletterPending("unsubscribe", "unsubscribe", email,
                                        First(ids))]
  /\ UNCHANGED newsletterVars
  /\ NewsletterFrame

\* the commit of unsubscribe
UnsubscribeCommit(r) ==
  /\ req[r].pc = "unsubscribe"
  /\ subscriptions' =
       [subscriptions EXCEPT ![req[r].id] =
          Flush(@, req[r].loaded, Unsubscription(req[r].now))]
  /\ req' = [req EXCEPT ![r] =
               Done("unsubscribe", "newsletter", req[r].in, 200) @@
                 [n |-> req[r].n, id |-> req[r].id, message |-> "none"]]
  /\ UNCHANGED << started, nextSubscriptionId >>
  /\ NewsletterFrame

\* the rows a subscriber can have left behind before the requests modelled
\* here: pending or confirmed, subscribed or unsubscribed
SeedSubscriptions ==
  { [SubscriptionRow("a@x", 0) EXCEPT
       !.is_confirmed = c,
       !.confirmation_token = IF c THEN None ELSE Some(0),
       !.confirmed_at = IF c THEN Some(0) ELSE None,
       !.is_active = a,
       !.unsubscribed_at = IF a THEN None ELSE Some(0)] : c, a \in BOOLEAN }

InitNewsletter ==
  /\ InitStore(RouterConfig(TRUE, FALSE, FALSE), AdapterConfig(TRUE, FALSE, FALSE))
  /\ slugCall = [pc |-> "none"]
  /\ \/ NoSubscriptions
     \/ \E row \in SeedSubscriptions :
          /\ subscriptions = (1 :> row)
          /\ nextSubscriptionId = 2

NextNewsletter ==
  \E r \in Slots :
    \/ \E email \in Emails : SubscribeBegin(r, email)
    \/ SubscribeCommit(r)
    \/ \E token \in 0..started : ConfirmBegin(r, token)
    \/ ConfirmCommit(r)
    \/ \E email \in Emails : UnsubscribeBegin(r, email)
    \/ UnsubscribeCommit(r)

SpecNewsletter == InitNewsletter /\ [][NextNewsletter]_vars

\* the slot whose request this step accepted
Began(r) ==
  /\ started' = started + 1
  /\ req'[r].pc # "idle"
  /\ req'[r].kind = "newsletter"
  /\ req'[r].n = started'

Subscribed(email) == \E id \in DOMAIN subscriptions :
  subscriptions[id].email = email /\ subscriptions[id].is_active

\* C21: subscribing an e-mail address that has an active subscription
\* answers with that subscription's id, writes nothing, and leaves the one
\* row the address had
C21_SubscribeActiveIsNoOp ==
  [][\A r \in Slots :
       (Began(r) /\ req'[r].op = "subscribe" /\ Subscribed(req'[r].in)) =>
         /\ req'[r].pc = "done"
         /\ req'[r].status = 200
         /\ ByEmail(req'[r].in) = {req'[r].id}
         /\ subscriptions' = subscriptions
         /\ nextSubscriptionId' = nextSubscriptionId]_vars

\* two subscribe requests for one address, both answered with the row that
\* was already active
C21_Witness ==
  /\ \A r \in Slots :
       /\ req[r].pc = "done"
       /\ req[r].op = "subscribe"
       /\ req[r].message = "already subscribed"
       /\ req[r].id = req["r1"].id
  /\ req["r1"].n # req["r2"].n
  /\ Cardinality(ByEmail(req["r1"].in)) = 1

\* columns of a row that record its confirmation
ConfirmationState(row) ==
  << row.is_confirmed, row.confirmed_at, row.confirmation_token >>

OthersKept(id) ==
  /\ DOMAIN subscriptions' = DOMAIN subscriptions
  /\ \A other \in DOMAIN subscriptions \ {id} :
       subscriptions'[other] = subscriptions[other]

\* C22: subscribing an address whose subscription is inactive makes that
\* row active again with no unsubscription time, answers with it, adds no
\* row and leaves its confirmation state as it was
C22_SubscribeInactiveReactivates ==
  [][\A r \in Slots :
       /\ (Began(r) /\ req'[r].op = "subscribe" /\ ByEmail(req'[r].in) # {}
             /\ ~Subscribed(req'[r].in)) =>
            /\ req'[r].pc = "reactivate"
            /\ req'[r].id \in ByEmail(req'[r].in)
       /\ (req[r].pc = "reactivate" /\ req'[r].pc = "done") =>
            LET id == req[r].id IN
              /\ req'[r].status = 200
              /\ req'[r].id = id
              /\ subscriptions'[id].is_active
              /\ subscriptions'[id].unsubscribed_at = None
              /\ subscriptions'[id].email = req[r].in
              /\ ConfirmationState(subscriptions'[id]) =
                   ConfirmationState(subscriptions[id])
              /\ OthersKept(id)
              /\ nextSubscriptionId' = nextSubscriptionId]_vars

\* a confirmed, unsubscribed address was subscribed again
C22_Witness ==
  \E r \in Slots :
    /\ req[r].pc = "done"
    /\ req[r].op = "subscribe"
    /\ req[r].message = "reactivated"
    /\ subscriptions[req[r].id].is_active
    /\ subscriptions[req[r].id].is_confirmed
    /\ subscriptions[req[r].id].unsubscribed_at = None
    /\ Cardinality(DOMAIN subscriptions) = 1

Held(token) == ByToken(token) # {}

\* a token drawn for a row that is not inserted yet
Drawn(token) ==
  \E r \in Slots :
    req[r].pc = "insert" /\ req[r].loaded.confirmation_token = Some(token)

\* C23: confirming a pending subscription by its token marks it confirmed,
\* records the time and clears the token; a token no row holds is answered
\* NotFound with nothing changed, and a token that was cleared is held by
\* no row ever after
C23_ConfirmOnce ==
  [][/\ \A r \in Slots :
          /\ (req[r].pc = "confirm" /\ req'[r].pc = "done") =>
               LET id == req[r].id IN
                 /\ req'[r].status = 200
                 /\ subscriptions'[id].is_confirmed
                 /\ subscriptions'[id].confirmed_at # None
                 /\ subscriptions'[id].confirmation_token = None
                 /\ OthersKept(id)
          /\ (Began(r) /\ req'[r].op = "confirm" /\ ~Held(req'[r].in)) =>
               /\ req'[r].pc = "done"
               /\ req'[r].status = 404
               /\ UNCHANGED newsletterVars
     /\ \A token \in 0..started :
          (~Held(token) /\ ~Drawn(token)) => ~Held(token)']_vars

\* one token confirmed, and presented again afterwards
C23_Witness ==
  \E r, q \in Slots :
    /\ req[r].pc = "done" /\ req[r].op = "confirm" /\ req[r].status = 200
    /\ req[q].pc = "done" /\ req[q].op = "confirm" /\ req[q].status = 404
    /\ req[q].in = req[r].in
    /\ req[q].n > req[r].n
    /\ subscriptions[req[r].id].is_confirmed

\* C24 as stated: unsubscribing a known address makes that row inactive and
\* records the time, on that row only and without touching its confirmation
\* state; an unknown address is answered NotFound and nothing is created
\* or modified
C24_Unsubscribe ==
  [][\A r \in Slots :
       /\ (req[r].pc = "unsubscribe" /\ req'[r].pc = "done") =>
            LET id == req[r].id IN
              /\ req'[r].status = 200
              /\ subscriptions[id].email = req[r].in
              /\ ~subscriptions'[id].is_active
              /\ subscriptions'[id].unsubscribed_at = Some(req[r].now)
              /\ ConfirmationState(subscriptions'[id]) =
                   ConfirmationState(subscriptions[id])
              /\ OthersKept(id)
              /\ nextSubscriptionId' = nextSubscriptionId
       /\ (Began(r) /\ req'[r].op = "unsubscribe" /\ ByEmail(req'[r].in) = {}) =>
            /\ req'[r].pc = "done"
            /\ req'[r].status = 404
            /\ UNCHANGED newsletterVars]_vars

\* C29 as stated: on every subscription row, is_active is false exactly
\* when unsubscribed_at is set, and is_confirmed is true exactly when
\* confirmed_at is set and exactly when confirmation_token is null
C29_SubscriptionInvariants ==
  \A id \in DOMAIN subscriptions :
    LET row == subscriptions[id] IN
      /\ (~row.is_active) <=> (row.unsubscribed_at # None)
      /\ row.is_confirmed <=> (row.confirmed_at # None)
      /\ row.is_confirmed <=> (row.confirmation_token = None)

\* C25 as stated: every 500 answer carries the fixed generic message and no
\* text of the exception behind it
C25_GenericBodyOn500 ==
  \A r \in Slots :
    (req[r].pc = "done" /\ req[r].status = 500) =>
      /\ Detail(req[r]) = GenericDetail
      /\ \A i \in DOMAIN Detail(req[r]) : Detail(req[r])[i] # ExceptionText

\* ---------------------------------------------------------------------
\* Listings (blog/router.py read_blogs; newsEvents/router.py read_news,
\* read_events)
\* ---------------------------------------------------------------------

\* BlogPaginationParams.is_published and ContentPaginationParams.is_published
\* when the query string does not give it
PublishedOnlyDefault == Some(TRUE)

\* the rows of an entity that pass the is_published filter of its listing
Filtered(k, is_published) ==
  { id \in Ids(k) :
      is_published = None \/ rows[k][id].is_published = Val(is_published) }

read_blogs(is_published) == Filtered("blog", is_published)

read_news(is_published) == Filtered("news", is_published)

\* db.query(model.Event).offset(skip).limit(limit).all(): the handler takes
\* skip and limit only
read_events(is_published) == Ids("event")

\* GET /blogs/, GET /news/, GET /events/ with is_published in the query
\* string, the first page; the answer holds each item with its is_published
ReadList(r, k, is_published) ==
  /\ Free(r)
  /\ started' = started + 1
  /\ LET ids == CASE k = "blog" -> read_blogs(is_published)
                  [] k = "news" -> read_news(is_published)
                  [] k = "event" -> read_events(is_published)
     IN req' = [req EXCEPT ![r] =
                  Done("list", k, is_published, 200) @@
                    [items |-> { << id, rows[k][id].is_published >> : id \in ids }]]
  /\ UNCHANGED << dbVars, slugCall, storeVars, commentVars, newsletterVars >>

ListCreates ==
  [k \in Kinds |->
     { Body(k, TitleHello), With(Body(k, TitleHello), "is_published", TRUE) }]

ListUpdates == [k \in Kinds |-> { [is_published |-> Some(b)] : b \in BOOLEAN }]

NextListing ==
  \E r \in Slots :
    \/ \E k \in Kinds : \E in \in ListCreates[k] : CreateBegin(r, k, in)
    \/ CreateInsert(r)
    \/ CreateAssoc(r)
    \/ \E k \in Kinds : \E id \in Ids(k) : \E in \in ListUpdates[k] :
         UpdateBegin(r, k, id, in)
    \/ UpdateCommit(r)
    \/ \E k \in Kinds : \E is_published \in {None, Some(TRUE), Some(FALSE)} :
         ReadList(r, k, is_published)

SpecListing == Init /\ [][NextListing]_vars

\* C26 as stated: a listing of blogs, news or events asked with the
\* published-only flag at its default holds published items only
C26_DefaultListingPublishedOnly ==
  \A r \in Slots :
    (req[r].pc = "done" /\ req[r].op = "list" /\ req[r].in = PublishedOnlyDefault) =>
      \A item \in req[r].items : item[2]

\* ---------------------------------------------------------------------
\* Concurrent reads by slug of one blog post
\* ---------------------------------------------------------------------

\* the slug of the one row each entity has
Viewed(k) == SeedRow(k).slug

\* GET /blogs/slug/{slug} and GET /news/slug/{slug} for that row
NextViews ==
  \E r \in Slots :
    \/ \E k \in {"blog", "news"} : ReadBegin(r, k, Viewed(k))
    \/ ReadCommit(r)

SpecViews == InitComments /\ [][NextViews]_vars

view_count(k) == rows[k][1].view_count

\* every request made so far is answered, one at least with the row of k
Counted(k) ==
  /\ \A r \in Slots : req[r].pc \in {"idle", "done"}
  /\ \E r \in Slots : req[r].pc = "done" /\ req[r].kind = k /\ req[r].status = 200

C27_CreateAtomic ==
  \A r \in Slots :
    (req[r].pc = "assoc" /\ req[r].id \in Ids(req[r].kind)) =>
      LET k == req[r].kind
          id == req[r].id
          in == req[r].in
      IN /\ tag_links[k] = CreateLinks(tag_links[k], id, OrEmpty(in.tag_ids), TagIds)
         /\ related[k] =
              CreateLinks(related[k], id, OrEmpty(in[SelfField(k)]), Ids(k))

\* C30 as stated: no blog, news item or event is among its own related items
C30_NotRelatedToItself ==
  \A k \in Kinds : \A id \in Ids(k) : id \notin RelatedOf(k, id)

====
